---- MODULE Spec2Model ----
(***************************************************************************)
(* Data gateway: one ingestion handler, three query handlers and a track   *)
(* export over a flat store of location records.  The repository holds two *)
(* builds of package main: the document-store build (src/main.go) and the  *)
(* relational build (src/unnamed/part_001).  `variant` says which build is *)
(* running; every handler is one atomic step because each handler performs *)
(* a single store operation.                                               *)
(***************************************************************************)
EXTENDS Integers, Sequences, FiniteSets, TLC

\* variant: the build that is running ("mongo" or "sqlite")
\* store:   the records of the collection / the rows of table `locations`,
\*          in insertion (rowid) order
\* acked:   the request bodies that were answered {"status":"success"}
\* resp:    the last request and the response it got
VARIABLES variant, store, acked, resp

vars == <<variant, store, acked, resp>>

\* ------------------------------------------------------------------ bounds
\* Largest number of records the store is allowed to reach.
MaxStore == 3

Variants == {"mongo", "sqlite"}
Deployments == {"D1", "D2"}
Platforms == {"P1", "P2"}
\* Which platforms report under which deployment.
Fleet == {<<"D1", "P1">>, <<"D1", "P2">>, <<"D2", "P1">>}
\* Timestamps are strings; "10" sorts before "2" as a string, after it as a number.
Timestamps == {"10", "2"}
\* Coordinates in units of 1e-7 degree.
Lats == {14}
Lons == {26}

\* ------------------------------------------------------------------ strings
\* The bytes of the strings that are compared by the stores.
Chars(s) ==
  CASE s = "10" -> <<1, 0>>
    [] s = "2" -> <<2>>
    [] OTHER -> <<>>

Min(a, b) == IF a <= b THEN a ELSE b

\* Byte-wise (memcmp / BINARY collation) order of two strings.
StrLeq(a, b) ==
  LET x == Chars(a)
      y == Chars(b)
  IN \/ \E k \in 1..Min(Len(x), Len(y)) :
          /\ \A j \in 1..(k - 1) : x[j] = y[j]
          /\ x[k] < y[k]
     \/ /\ Len(x) <= Len(y)
        /\ \A j \in 1..Len(x) : x[j] = y[j]

\* ------------------------------------------------------------------ JSON request bodies
JMissing == [type |-> "missing", str |-> "", num |-> 0]
JStr(s) == [type |-> "string", str |-> s, num |-> 0]
JNum(n) == [type |-> "number", str |-> "", num |-> n]

StringFields == {"deployment", "platform", "timestamp", "source"}
NumberFields == {"latitude", "longitude"}

MkBody(d, p, la, lo, t, s) ==
  [syntaxOk |-> TRUE,
   obj |-> [deployment |-> d, platform |-> p, latitude |-> la,
            longitude |-> lo, timestamp |-> t, source |-> s]]

\* A body that is not a JSON document at all.
NotJSON ==
  [syntaxOk |-> FALSE,
   obj |-> [deployment |-> JMissing, platform |-> JMissing, latitude |-> JMissing,
            longitude |-> JMissing, timestamp |-> JMissing, source |-> JMissing]]

ValidBodies ==
  {MkBody(JStr(f[1]), JStr(f[2]), JNum(la), JNum(lo), JStr(t), JStr("api")) :
     f \in Fleet, la \in Lats, lo \in Lons, t \in Timestamps}

\* Bodies that are not JSON, leave `platform` out, or give it a number.
OddBodies ==
  {NotJSON} \cup
  {MkBody(JStr("D1"), JMissing, JNum(la), JNum(lo), JStr("2"), JStr("api")) :
     la \in Lats, lo \in Lons} \cup
  {MkBody(JStr("D1"), JNum(7), JNum(la), JNum(lo), JStr("2"), JStr("api")) :
     la \in Lats, lo \in Lons}

Bodies == ValidBodies \cup OddBodies

\* ------------------------------------------------------------------ Location
\* The Location struct as bound from a request body (no creation time).
Location(d, p, la, lo, t, s) ==
  [deployment |-> d, platform |-> p, latitude |-> la, longitude |-> lo,
   timestamp |-> t, source |-> s]

\* c.ShouldBindJSON fails on a syntax error and on a value of the wrong JSON
\* type; the struct carries no `binding:"required"` tag, so a missing key is
\* not an error.
BindError(b) ==
  \/ ~b.syntaxOk
  \/ \E f \in StringFields : b.obj[f].type \notin {"missing", "string"}
  \/ \E f \in NumberFields : b.obj[f].type \notin {"missing", "number"}

\* A missing key leaves the field at its zero value.
ShouldBindJSON(b) ==
  Location(b.obj.deployment.str, b.obj.platform.str, b.obj.latitude.num,
           b.obj.longitude.num, b.obj.timestamp.str, b.obj.source.str)

\* The fields a client sees, the server-assigned creation time left out.
Visible(r) ==
  Location(r.deployment, r.platform, r.latitude, r.longitude, r.timestamp, r.source)

\* time.Now() read by the document-store build: later inserts get later times.
Now == Len(store) + 1

\* MongoDoc with the two coordinates stored in each other's field.
MongoDoc_SwappedCoordinates(loc) ==
  [deployment |-> loc.deployment, platform |-> loc.platform,
   latitude |-> loc.longitude, longitude |-> loc.latitude,
   timestamp |-> loc.timestamp, source |-> loc.source, created_at |-> Now]

\* The document written by collection.InsertOne.
MongoDoc(loc) ==
  [deployment |-> loc.deployment, platform |-> loc.platform,
   latitude |-> loc.latitude, longitude |-> loc.longitude,
   timestamp |-> loc.timestamp, source |-> loc.source, created_at |-> Now]

\* The row written by INSERT INTO locations (id is the position in `store`).
SqlRow(loc) ==
  [deployment |-> loc.deployment, platform |-> loc.platform,
   latitude |-> loc.latitude, longitude |-> loc.longitude,
   timestamp |-> loc.timestamp, source |-> loc.source]

Response(op, req, status, body) ==
  [op |-> op, req |-> req, status |-> status, body |-> body]

\* ------------------------------------------------------------------ sequences
Range(f) == {f[i] : i \in DOMAIN f}

RECURSIVE Perms(_)
\* All orderings of the elements of a finite set.
Perms(S) ==
  IF S = {} THEN {<<>>}
  ELSE UNION {{<<x>> \o p : p \in Perms(S \ {x})} : x \in S}

\* A record satisfies an equality condition (a bson.M filter, or the
\* column = ? terms of a WHERE clause): a map from field names to values.
Match(r, cond) == \A k \in DOMAIN cond : r[k] = cond[k]

\* The condition over the keys `keys` with the given deployment and platform.
Cond(keys, deployment, platform) ==
  [k \in keys |-> IF k = "deployment" THEN deployment ELSE platform]

\* The indices of `rows` that satisfy the condition.
Matching(rows, cond) == {i \in DOMAIN rows : Match(rows[i], cond)}

\* The rows that satisfy the condition, in stored order.
Scan(rows, cond) ==
  LET Test(r) == Match(r, cond)
  IN SelectSeq(rows, Test)

\* `rows` restricted to and ordered by the index sequence p.
Pick(rows, p) == [k \in DOMAIN p |-> rows[p[k]]]

\* p orders its rows by ascending timestamp; rows with equal timestamps may
\* come in any order (neither store promises a tie-break).
SortedByTimestamp(rows, p) ==
  \A a, b \in DOMAIN p : a < b => StrLeq(rows[p[a]].timestamp, rows[p[b]].timestamp)

\* Dedup for a SELECT that lost its DISTINCT: every value is kept.
Dedup_KeepAll(s) == s

RECURSIVE Dedup(_)
\* The values of a sequence, each once, in order of first occurrence.
Dedup(s) ==
  IF s = <<>> THEN <<>>
  ELSE LET init == Dedup(SubSeq(s, 1, Len(s) - 1))
           last == s[Len(s)]
       IN IF last \in Range(init) THEN init ELSE Append(init, last)

\* A Go slice handed to c.JSON: a nil slice is rendered as JSON null, a
\* non-nil one as an array.
Slice(items, isNil) == [nil |-> isNil, items |-> items]

\* A slice declared `var x []T` and grown by append stays nil when nothing is appended.
Appended(items) == Slice(items, items = <<>>)

ErrorBody == Slice(<<>>, FALSE)

\* c.Query(key): the parameter's value, "" when the URL does not carry it.
Query(q, key) == IF key \in DOMAIN q THEN q[key] ELSE ""

\* The query strings of GET /locations: each parameter present or absent.
QueryStrings ==
  {<<>>} \cup
  {[k \in {"deployment"} |-> d] : d \in Deployments} \cup
  {[k \in {"platform"} |-> p] : p \in Platforms} \cup
  {[k \in {"deployment", "platform"} |-> IF k = "deployment" THEN d ELSE p] :
     d \in Deployments, p \in Platforms}

\* Path parameter values: the known deployments and one nobody submitted under.
PathDeployments == Deployments \cup {"DX"}

Init ==
  /\ variant \in Variants
  /\ store = <<>>
  /\ acked = <<>>
  /\ resp = [op |-> "none", req |-> "", status |-> 0, body |-> ErrorBody]

\* ------------------------------------------------------------------ POST
\* Mongo_PostOutcome for an insert that is reported failed after the document
\* was written.
Mongo_PostOutcome_InsertOnError(body, insertFails) ==
  IF BindError(body) THEN [status |-> 400, insert |-> <<>>]
  ELSE IF insertFails
    THEN [status |-> 500, insert |-> <<MongoDoc(ShouldBindJSON(body))>>]
  ELSE [status |-> 200, insert |-> <<MongoDoc(ShouldBindJSON(body))>>]

\* src/main.go handlePostLocation: the status answered and the documents inserted.
Mongo_PostOutcome(body, insertFails) ==
  IF BindError(body) THEN [status |-> 400, insert |-> <<>>]
  ELSE IF insertFails THEN [status |-> 500, insert |-> <<>>]
  ELSE [status |-> 200, insert |-> <<MongoDoc(ShouldBindJSON(body))>>]

Mongo_handlePostLocation ==
  /\ variant = "mongo"
  /\ Len(store) < MaxStore
  /\ \E body \in Bodies, insertFails \in BOOLEAN :
       LET out == Mongo_PostOutcome(body, insertFails)
       IN /\ store' = store \o out.insert
          /\ acked' = IF out.status = 200 THEN Append(acked, body) ELSE acked
          /\ resp' = Response("post", body, out.status, ErrorBody)
  /\ UNCHANGED variant

\* Sqlite_PostOutcome for an INSERT OR IGNORE under a uniqueness constraint:
\* a row that is already stored is acknowledged and not stored again.
Sqlite_PostOutcome_Dedup(body, dbError) ==
  IF BindError(body) THEN [status |-> 400, insert |-> <<>>]
  ELSE IF dbError # "" THEN [status |-> 500, insert |-> <<>>]
  ELSE IF SqlRow(ShouldBindJSON(body)) \in Range(store)
    THEN [status |-> 200, insert |-> <<>>]
  ELSE [status |-> 200, insert |-> <<SqlRow(ShouldBindJSON(body))>>]

\* src/unnamed/part_001 handlePostLocation: the status answered and the rows
\* inserted; dbError is "" (none), "prepare" or "exec".
Sqlite_PostOutcome(body, dbError) ==
  IF BindError(body) THEN [status |-> 400, insert |-> <<>>]
  ELSE IF dbError = "prepare" THEN [status |-> 500, insert |-> <<>>]
  ELSE IF dbError = "exec" THEN [status |-> 500, insert |-> <<>>]
  ELSE [status |-> 200, insert |-> <<SqlRow(ShouldBindJSON(body))>>]

Sqlite_handlePostLocation ==
  /\ variant = "sqlite"
  /\ Len(store) < MaxStore
  /\ \E body \in Bodies, dbError \in {"", "prepare", "exec"} :
       LET out == Sqlite_PostOutcome(body, dbError)
       IN /\ store' = store \o out.insert
          /\ acked' = IF out.status = 200 THEN Append(acked, body) ELSE acked
          /\ resp' = Response("post", body, out.status, ErrorBody)
  /\ UNCHANGED variant

\* ------------------------------------------------------------------ GET locations
\* src/main.go handleGetLocations: the bson.M filter built from the query.
Mongo_Filter(deployment, platform) ==
  Cond((IF deployment # "" THEN {"deployment"} ELSE {})
         \cup (IF platform # "" THEN {"platform"} ELSE {}),
       deployment, platform)

\* collection.Find(filter, sort timestamp ascending) followed by cursor.All.
Mongo_Find(docs, filter) ==
  {Pick(docs, p) : p \in {q \in Perms(Matching(docs, filter)) : SortedByTimestamp(docs, q)}}

Mongo_handleGetLocations ==
  /\ variant = "mongo"
  /\ \E q \in QueryStrings, findFails \in BOOLEAN :
       IF findFails
         THEN resp' = Response("locations", q, 500, ErrorBody)
         ELSE \E locations \in Mongo_Find(store,
                                  Mongo_Filter(Query(q, "deployment"), Query(q, "platform"))) :
                resp' = Response("locations", q, 200, Slice(locations, FALSE))
  /\ UNCHANGED <<variant, store, acked>>

\* src/unnamed/part_001 handleGetLocations: the WHERE clause appended to the
\* SELECT; the platform test is nested inside the deployment test.
Sqlite_Where(deployment, platform) ==
  IF deployment # ""
    THEN IF platform # ""
           THEN Cond({"deployment", "platform"}, deployment, platform)
           ELSE Cond({"deployment"}, deployment, platform)
    ELSE Cond({}, deployment, platform)

\* SELECT ... FROM locations [WHERE ...] with no ORDER BY: a table scan, rows
\* in rowid order.
Sqlite_Select(rows, where) == Scan(rows, where)

Sqlite_handleGetLocations ==
  /\ variant = "sqlite"
  /\ \E q \in QueryStrings, queryFails \in BOOLEAN :
       IF queryFails
         THEN resp' = Response("locations", q, 500, ErrorBody)
         ELSE resp' = Response("locations", q, 200,
                        Appended(Sqlite_Select(store,
                                   Sqlite_Where(Query(q, "deployment"), Query(q, "platform")))))
  /\ UNCHANGED <<variant, store, acked>>

\* ------------------------------------------------------------------ GET deployments
\* collection.Distinct(field, filter): the distinct values, in no promised order,
\* as a non-nil []interface{}.
Mongo_Distinct(docs, field, filter) ==
  Perms({docs[i][field] : i \in Matching(docs, filter)})

Mongo_handleGetDeployments ==
  /\ variant = "mongo"
  /\ \E distinctFails \in BOOLEAN :
       IF distinctFails
         THEN resp' = Response("deployments", "", 500, ErrorBody)
         ELSE \E deployments \in Mongo_Distinct(store, "deployment", Cond({}, "", "")) :
                resp' = Response("deployments", "", 200, Slice(deployments, FALSE))
  /\ UNCHANGED <<variant, store, acked>>

\* SELECT DISTINCT field FROM locations [WHERE ...]: one row per value, in the
\* order the scan first meets it.
Sqlite_SelectDistinct(rows, field, where) ==
  LET hit == Scan(rows, where)
  IN Dedup([i \in DOMAIN hit |-> hit[i][field]])

Sqlite_handleGetDeployments ==
  /\ variant = "sqlite"
  /\ \E queryFails \in BOOLEAN :
       IF queryFails
         THEN resp' = Response("deployments", "", 500, ErrorBody)
         ELSE resp' = Response("deployments", "", 200,
                        Appended(Sqlite_SelectDistinct(store, "deployment", Cond({}, "", ""))))
  /\ UNCHANGED <<variant, store, acked>>

\* ------------------------------------------------------------------ GET platforms
Mongo_handleGetPlatforms ==
  /\ variant = "mongo"
  /\ \E deployment \in PathDeployments, distinctFails \in BOOLEAN :
       IF distinctFails
         THEN resp' = Response("platforms", deployment, 500, ErrorBody)
         ELSE \E platforms \in Mongo_Distinct(store, "platform",
                                                Cond({"deployment"}, deployment, "")) :
                resp' = Response("platforms", deployment, 200, Slice(platforms, FALSE))
  /\ UNCHANGED <<variant, store, acked>>

Sqlite_handleGetPlatforms ==
  /\ variant = "sqlite"
  /\ \E deployment \in PathDeployments, queryFails \in BOOLEAN :
       IF queryFails
         THEN resp' = Response("platforms", deployment, 500, ErrorBody)
         ELSE resp' = Response("platforms", deployment, 200,
                        Appended(Sqlite_SelectDistinct(store, "platform",
                                   Cond({"deployment"}, deployment, ""))))
  /\ UNCHANGED <<variant, store, acked>>

\* ------------------------------------------------------------------ GET download_kml
\* fmt's %f verb: six decimals, so a coordinate held in units of 1e-7 is
\* rounded (half to even) to units of 1e-6.
FormatF(x) ==
  LET q == x \div 10
      r == x % 10
  IN IF r > 5 \/ (r = 5 /\ q % 2 = 1) THEN q + 1 ELSE q

\* Sqlite_SelectTrack for a query that lost its ORDER BY: rowid order.
Sqlite_SelectTrack_Unordered(rows, deployment) ==
  {Scan(rows, Cond({"deployment"}, deployment, ""))}

\* SELECT platform, latitude, longitude, timestamp FROM locations
\* WHERE deployment = ? ORDER BY timestamp.
Sqlite_SelectTrack(rows, deployment) ==
  LET hit == Matching(rows, Cond({"deployment"}, deployment, ""))
  IN {Pick(rows, p) : p \in {q \in Perms(hit) : SortedByTimestamp(rows, q)}}

\* PlatformData for a loop that assigns the point instead of appending it:
\* only the last scanned row of the platform is kept.
PlatformData_Overwrite(rows, platform) ==
  LET all == Scan(rows, Cond({"platform"}, "", platform))
  IN IF all = <<>> THEN <<>> ELSE <<all[Len(all)]>>

\* platformData[platform] after the scan loop: the scanned rows of that
\* platform, in scan order.
PlatformData(rows, platform) == Scan(rows, Cond({"platform"}, "", platform))

\* The path placemark of one platform: "%f,%f,0 " of longitude, latitude per point.
LineStringPlacemark(platform, points) ==
  [element |-> "LineString", name |-> platform, when |-> "",
   coordinates |-> [i \in DOMAIN points |->
                      <<FormatF(points[i].longitude), FormatF(points[i].latitude)>>]]

\* The waypoint placemark of one point.
PointPlacemark(point) ==
  [element |-> "Point", name |-> point.timestamp, when |-> point.timestamp,
   coordinates |-> <<<<FormatF(point.longitude), FormatF(point.latitude)>>>>]

RECURSIVE Placemarks(_, _)
\* The placemarks appended while ranging over platformData in the order `keys`.
Placemarks(rows, keys) ==
  IF keys = <<>> THEN <<>>
  ELSE LET points == PlatformData(rows, Head(keys))
       IN <<LineStringPlacemark(Head(keys), points)>>
          \o [i \in DOMAIN points |-> PointPlacemark(points[i])]
          \o Placemarks(rows, Tail(keys))

\* The document written by c.String: the header is never run through Sprintf,
\* so its name keeps the verb.
KmlDocument(placemarks) ==
  [name |-> "%s Track", style |-> "yellowLineGreenPoly", placemarks |-> placemarks,
   closed |-> TRUE]

Sqlite_handleDownloadKML ==
  /\ variant = "sqlite"
  /\ \E deployment \in PathDeployments, queryFails \in BOOLEAN :
       IF queryFails
         THEN resp' = Response("kml", deployment, 500, ErrorBody)
         ELSE \E rows \in Sqlite_SelectTrack(store, deployment) :
                \E keys \in Perms({rows[i].platform : i \in DOMAIN rows}) :
                  resp' = Response("kml", deployment, 200,
                            KmlDocument(Placemarks(rows, keys)))
  /\ UNCHANGED <<variant, store, acked>>

Next ==
  \/ Mongo_handlePostLocation
  \/ Sqlite_handlePostLocation
  \/ Mongo_handleGetLocations
  \/ Sqlite_handleGetLocations
  \/ Mongo_handleGetDeployments
  \/ Sqlite_handleGetDeployments
  \/ Mongo_handleGetPlatforms
  \/ Sqlite_handleGetPlatforms
  \/ Sqlite_handleDownloadKML

Spec == Init /\ [][Next]_vars

\* ================================================================== properties
NoDuplicates(seq) == \A i, j \in DOMAIN seq : seq[i] = seq[j] => i = j

ReadOps == {"locations", "deployments", "platforms", "kml"}

\* The fields the data model calls required.
RequiredFields == {"deployment", "platform", "latitude", "longitude", "timestamp"}

\* A well-formed JSON body that leaves a required field out.
MissingRequired(body) ==
  /\ body.syntaxOk
  /\ \E f \in RequiredFields : body.obj[f].type = "missing"

\* The fields of a body as the client submitted them.
Submitted(body) ==
  Location(body.obj.deployment.str, body.obj.platform.str, body.obj.latitude.num,
           body.obj.longitude.num, body.obj.timestamp.str, body.obj.source.str)

\* A successful answer of handler `op`.
Ok(op) == resp.op = op /\ resp.status = 200

\* C1: a submission whose JSON body lacks a required field is answered 400
\* and leaves the store as it was.
C1_MissingFieldRejected ==
  [][(resp'.op = "post" /\ MissingRequired(resp'.req))
       => (resp'.status = 400 /\ store' = store)]_vars

\* C2: the records list-locations returns are non-decreasing by timestamp
\* under string comparison, for every store content and every filter.
C2_LocationsOrdered ==
  Ok("locations") =>
    \A i, j \in DOMAIN resp.body.items :
      i < j => StrLeq(resp.body.items[i].timestamp, resp.body.items[j].timestamp)

\* The record satisfies every filter parameter the query string carries.
MatchesQuery(r, q) ==
  /\ ("deployment" \in DOMAIN q => r.deployment = q["deployment"])
  /\ ("platform" \in DOMAIN q => r.platform = q["platform"])

\* C3: list-locations returns exactly the stored records that match every
\* filter parameter that is present, whichever of the two are present.
C3_LocationsFilterExact ==
  Ok("locations") =>
    LET items == resp.body.items
    IN /\ \A i \in DOMAIN items : MatchesQuery(items[i], resp.req)
       /\ \A i \in DOMAIN store :
            MatchesQuery(store[i], resp.req) =>
              Cardinality({k \in DOMAIN items : items[k] = store[i]})
                = Cardinality({k \in DOMAIN store : store[k] = store[i]})

\* The distinct platforms of the stored records of a deployment.
PlatformsOf(deployment) ==
  {store[i].platform : i \in {k \in DOMAIN store : store[k].deployment = deployment}}

\* C7: list-platforms answers, when it succeeds, a non-null sequence holding
\* exactly the distinct platforms of the deployment, each once; it is empty
\* (not null) for a deployment no record has.
C7_PlatformsOfDeployment ==
  Ok("platforms") =>
    /\ ~resp.body.nil
    /\ NoDuplicates(resp.body.items)
    /\ Range(resp.body.items) = PlatformsOf(resp.req)

\* The unfiltered list-locations query answered successfully.
UnfilteredList == Ok("locations") /\ DOMAIN resp.req = {}

\* How many records of a sequence show the submitted fields of `body`.
Showing(records, body) ==
  Cardinality({k \in DOMAIN records : Visible(records[k]) = Submitted(body)})

\* How many acknowledged submissions carried the same fields as `body`.
Acknowledged(body) ==
  Cardinality({k \in DOMAIN acked : Submitted(acked[k]) = Submitted(body)})

\* C4 as written: the unfiltered list holds exactly one record showing the
\* fields of each accepted submission.
C4_ExactlyOneRecord ==
  UnfilteredList =>
    \A i \in DOMAIN acked : Showing(resp.body.items, acked[i]) = 1

\* C4 amended: the unfiltered list holds at least one record showing the
\* fields of each accepted submission, namely as many as there were accepted
\* submissions of those fields.
C4_OneRecordPerAcceptedSubmission ==
  UnfilteredList =>
    \A i \in DOMAIN acked :
      /\ Showing(resp.body.items, acked[i]) >= 1
      /\ Showing(resp.body.items, acked[i]) = Acknowledged(acked[i])

\* Two different submissions and a repeated one were accepted, then listed.
C4_Witness ==
  /\ UnfilteredList
  /\ Len(acked) = 3
  /\ acked[1] = acked[3]
  /\ acked[1] # acked[2]
  /\ Showing(resp.body.items, acked[1]) = 2

\* C5: no deduplication: each successful submission appends one record, so
\* n accepted submissions of the same values leave n records with those
\* values in the store, and the unfiltered list returns all n.
C5_NoDeduplication ==
  /\ Len(store) = Len(acked)
  /\ \A i \in DOMAIN acked : Showing(store, acked[i]) = Acknowledged(acked[i])
  /\ UnfilteredList =>
       /\ Len(resp.body.items) = Len(acked)
       /\ \A i \in DOMAIN acked :
            Showing(resp.body.items, acked[i]) = Acknowledged(acked[i])

\* The same values were accepted three times and all three are listed.
C5_Witness ==
  /\ UnfilteredList
  /\ Len(acked) = 3
  /\ acked[1] = acked[2]
  /\ acked[2] = acked[3]
  /\ Showing(store, acked[1]) = 3
  /\ Showing(resp.body.items, acked[1]) = 3

\* C6: list-deployments returns every deployment value of the stored
\* records exactly once and nothing else.
C6_DeploymentsDistinct ==
  Ok("deployments") =>
    /\ NoDuplicates(resp.body.items)
    /\ Range(resp.body.items) = {store[i].deployment : i \in DOMAIN store}

\* Two records share a deployment, a third has another; two values are listed.
C6_Witness ==
  /\ Ok("deployments")
  /\ Len(store) = 3
  /\ store[1].deployment = store[2].deployment
  /\ store[3].deployment # store[1].deployment
  /\ Len(resp.body.items) = 2

\* The stored records of the deployment a track export was asked for.
TrackRecords ==
  {i \in DOMAIN store : store[i].deployment = resp.req}

\* The placemarks of the exported document that hold an element of the kind.
PlacemarksOf(kind) ==
  {i \in DOMAIN resp.body.placemarks : resp.body.placemarks[i].element = kind}

\* C8: the track export of a deployment with N records over K platforms has
\* exactly K path (LineString) placemarks and N waypoint (Point) placemarks;
\* with no records it is a closed document without placemarks.
C8_KmlCounts ==
  Ok("kml") =>
    /\ resp.body.closed
    /\ Cardinality(PlacemarksOf("LineString")) = Cardinality(PlatformsOf(resp.req))
    /\ Cardinality(PlacemarksOf("Point")) = Cardinality(TrackRecords)
    /\ Len(resp.body.placemarks)
         = Cardinality(PlatformsOf(resp.req)) + Cardinality(TrackRecords)
    /\ (TrackRecords = {} => resp.body.placemarks = <<>>)

\* Three records over two platforms were exported.
C8_Witness ==
  /\ Ok("kml")
  /\ Cardinality(TrackRecords) = 3
  /\ Cardinality(PlatformsOf(resp.req)) = 2
  /\ Len(resp.body.placemarks) = 5

\* An export of a deployment that has no record, while the store has records.
C8_EmptyWitness ==
  /\ Ok("kml")
  /\ store # <<>>
  /\ TrackRecords = {}
  /\ resp.body.placemarks = <<>>

\* The waypoint a stored record is exported as: its timestamp and its
\* formatted longitude, latitude pair.
Waypoint(r) == <<r.timestamp, FormatF(r.longitude), FormatF(r.latitude)>>

\* C9: in the track export every platform's path lists the same points, in
\* the same order, as the waypoints that follow it; these are exactly the
\* records of that platform in the deployment, in non-decreasing timestamp
\* order; and every platform of the deployment has one such group.
C9_KmlStablePartition ==
  Ok("kml") =>
    LET pm == resp.body.placemarks
        paths == PlacemarksOf("LineString")
    IN /\ {pm[i].name : i \in paths} = PlatformsOf(resp.req)
       /\ \A i, j \in paths : pm[i].name = pm[j].name => i = j
       /\ (pm # <<>> => 1 \in paths)
       /\ \A i \in paths :
            LET n == Len(pm[i].coordinates)
                mine == {k \in TrackRecords : store[k].platform = pm[i].name}
            IN /\ i + n <= Len(pm)
               /\ (i + n < Len(pm) => (i + n + 1) \in paths)
               /\ \A k \in 1..n :
                    /\ pm[i + k].element = "Point"
                    /\ pm[i + k].coordinates = <<pm[i].coordinates[k]>>
                    /\ pm[i + k].name = pm[i + k].when
               /\ \A k, l \in 1..n : k < l => StrLeq(pm[i + k].when, pm[i + l].when)
               /\ n = Cardinality(mine)
               /\ \A m \in mine :
                    Cardinality({k \in 1..n :
                       <<pm[i + k].when, pm[i + k].coordinates[1][1],
                         pm[i + k].coordinates[1][2]>> = Waypoint(store[m])})
                    = Cardinality({k \in mine : Waypoint(store[k]) = Waypoint(store[m])})

\* Two records of one platform were inserted in descending timestamp order,
\* a third record belongs elsewhere, and the deployment was exported.
C9_Witness ==
  /\ Ok("kml")
  /\ Len(store) = 3
  /\ Cardinality(TrackRecords) = 2
  /\ \E a, b \in TrackRecords :
       /\ a < b
       /\ store[a].platform = store[b].platform
       /\ ~StrLeq(store[a].timestamp, store[b].timestamp)
  /\ Len(resp.body.placemarks) = 3

\* C10: the store is append-only: a request appends at most one record and
\* never changes or removes a stored one; the four read handlers and every
\* submission answered 400 or 500 leave the store as it was.
C10_AppendOnly ==
  [][/\ Len(store') \in {Len(store), Len(store) + 1}
     /\ \A i \in DOMAIN store : store'[i] = store[i]
     /\ (resp'.op \in ReadOps => store' = store)
     /\ ((resp'.op = "post" /\ resp'.status \in {400, 500}) => store' = store)
     /\ ((resp'.op = "post" /\ resp'.status = 200) => Len(store') = Len(store) + 1)]_vars

\* A submission was refused by a failing store after others had been stored.
C10_Witness ==
  /\ Len(store) = 2
  /\ resp.op = "post"
  /\ resp.status = 500

====
